---- MODULE Spec2Model ----
(***************************************************************************)
(* Seam carving: the native pipeline of seamcarving.c (calc_energy,        *)
(* dynamic_seam, recover_path, remove_seam) and the single-call            *)
(* seam_carve of seamcarving_wasm.c, run side by side on the same image.   *)
(*                                                                         *)
(* A buffer obtained from malloc is a record [cells, written, stale]:      *)
(* cells holds what the memory holds (arbitrary content until a store),    *)
(* written the indices stored so far, stale the indices read before any    *)
(* store.  A raster has cells and written likewise, and writes, the list   *)
(* of (row, column) positions handed to set_pixel, in order.               *)
(***************************************************************************)
EXTENDS Integers, Sequences, FiniteSets, TLC

\* ------------------------------------------------------------------ bounds
\* Largest height and width of an image or cost table, and the most cells of one.
MaxH == 3
MaxW == 3
MaxCells == 9

\* RGBA pixels an input image is drawn from.
Palette == {<<0, 0, 0, 255>>, <<255, 100, 30, 128>>}
\* Cumulative costs a directly supplied cost table is drawn from.
CostVals == {0, 1, 2}
\* Content of freshly allocated, not yet written memory.
Garbage == {-1, 0, 1000}

VARIABLES
    height, width,   \* dimensions of the input image / cost table
    im,              \* native: source raster (struct rgb_img, 3 channels)
    src,             \* wasm: source buffer (RGBA)
    grad,            \* native: energy raster written by calc_energy
    best_arr,        \* native: cost table written by dynamic_seam
    path,            \* native: seam written by recover_path
    dest,            \* native: raster written by remove_seam
    pc,              \* native: the next pipeline stage
    sc_energy_map,   \* seam_carve: energy_map
    sc_best_arr,     \* seam_carve: best_arr
    sc_path,         \* seam_carve: path
    sc_output,       \* seam_carve: output
    sc_pc            \* seam_carve: the next step

vars == <<height, width, im, src, grad, best_arr, path, dest, pc,
          sc_energy_map, sc_best_arr, sc_path, sc_output, sc_pc>>

\* ------------------------------------------------------------------ memory
\* malloc(n * sizeof(T)): n cells of arbitrary content g, none written.
\* stale collects the indices read before any store to them.
Malloc(n, g) == [cells |-> [k \in 0..(n - 1) |-> g], written |-> {}, stale |-> {}]

\* a[k] = v
Store(a, k, v) ==
    [a EXCEPT !.cells = [@ EXCEPT ![k] = v], !.written = @ \cup {k}]

\* The reads of a[k] for k in ks, noted.
Loaded(a, ks) == [a EXCEPT !.stale = @ \cup (ks \ a.written)]

\* A buffer that has not been allocated yet.
NoBuf == Malloc(0, 0)

\* create_img(&img, height, width) of c_img: an uninitialised raster.
create_img(hh, ww, g) ==
    [height |-> hh, width |-> ww,
     cells |-> [k \in 0..(hh * ww - 1) |-> <<g % 256, g % 256, g % 256>>],
     written |-> {}, writes |-> <<>>]

NoImg == create_img(0, 0, 0)

\* get_pixel(im, y, x, col) of c_img.
img_get_pixel(img, y, x, col) == img.cells[y * img.width + x][col + 1]

\* set_pixel(im, y, x, r, g, b) of c_img; each channel is stored as a uint8_t.
\* Every position is recorded in writes; what a position outside the
\* allocation overwrites lies outside the raster and is not modelled.
img_set_pixel(img, y, x, r, g, b) ==
    LET k == y * img.width + x
        v == <<r % 256, g % 256, b % 256>>
    IN  [img EXCEPT
            !.cells = IF k \in DOMAIN img.cells THEN [@ EXCEPT ![k] = v] ELSE @,
            !.written = IF k \in DOMAIN img.cells THEN @ \cup {k} ELSE @,
            !.writes = Append(@, <<y, x>>)]

\* seamcarving_wasm.c get_pixel(raster, width, y, x, col); one cell per pixel.
get_pixel(raster, ww, y, x, col) == raster.cells[y * ww + x][col + 1]

\* seamcarving_wasm.c set_pixel(raster, width, y, x, r, g, b, a).
set_pixel(raster, ww, y, x, r, g, b, a) ==
    LET k == y * ww + x
        v == <<r % 256, g % 256, b % 256, a % 256>>
    IN  [raster EXCEPT
            !.cells = IF k \in DOMAIN raster.cells THEN [@ EXCEPT ![k] = v] ELSE @,
            !.written = IF k \in DOMAIN raster.cells THEN @ \cup {k} ELSE @,
            !.writes = Append(@, <<y, x>>)]

\* (uint8_t *)malloc(height * width * 4)
MallocRGBA(hh, ww, g) ==
    [cells |-> [k \in 0..(hh * ww - 1) |-> <<g % 256, g % 256, g % 256, g % 256>>],
     written |-> {}, writes |-> <<>>]

NoRGBA == MallocRGBA(0, 0, 0)

\* ------------------------------------------------------------------ energy
\* (int)sqrt(n) for an int n >= 0: the largest r with r * r <= n.
RECURSIVE SqrtSearch(_, _, _)
SqrtSearch(n, lo, hi) ==
    IF lo >= hi THEN lo
    ELSE LET mid == (lo + hi + 1) \div 2
         IN  IF mid * mid <= n THEN SqrtSearch(n, mid, hi)
                               ELSE SqrtSearch(n, lo, mid - 1)

SqrtInt(n) == SqrtSearch(n, 0, 1024)

\* calc_energy_at with the neighbours of a border pixel clamped to the border
\* instead of wrapped around.
calc_energy_at_clamped(img, j, i) ==
    LET ww == img.width
        hh == img.height
        k_left == IF i = 0 THEN 0 ELSE i - 1
        k_right == IF i = ww - 1 THEN ww - 1 ELSE i + 1
        k_up == IF j = 0 THEN 0 ELSE j - 1
        k_down == IF j = hh - 1 THEN hh - 1 ELSE j + 1
        R_x == img_get_pixel(img, j, k_right, 0) - img_get_pixel(img, j, k_left, 0)
        G_x == img_get_pixel(img, j, k_right, 1) - img_get_pixel(img, j, k_left, 1)
        B_x == img_get_pixel(img, j, k_right, 2) - img_get_pixel(img, j, k_left, 2)
        R_y == img_get_pixel(img, k_up, i, 0) - img_get_pixel(img, k_down, i, 0)
        G_y == img_get_pixel(img, k_up, i, 1) - img_get_pixel(img, k_down, i, 1)
        B_y == img_get_pixel(img, k_up, i, 2) - img_get_pixel(img, k_down, i, 2)
        grad_x_2 == R_x * R_x + B_x * B_x + G_x * G_x
        grad_y_2 == R_y * R_y + B_y * B_y + G_y * G_y
        energy == SqrtInt(grad_x_2 + grad_y_2)
    IN  (energy \div 10) % 256

\* seamcarving.c calc_energy, the body of the loops for pixel (j, i).
calc_energy_at(img, j, i) ==
    LET ww == img.width
        hh == img.height
        k_left == IF i = 0 THEN ww - 1 ELSE i - 1
        k_right == IF i = ww - 1 THEN 0 ELSE i + 1
        k_up == IF j = 0 THEN hh - 1 ELSE j - 1
        k_down == IF j = hh - 1 THEN 0 ELSE j + 1
        R_x == img_get_pixel(img, j, k_right, 0) - img_get_pixel(img, j, k_left, 0)
        G_x == img_get_pixel(img, j, k_right, 1) - img_get_pixel(img, j, k_left, 1)
        B_x == img_get_pixel(img, j, k_right, 2) - img_get_pixel(img, j, k_left, 2)
        R_y == img_get_pixel(img, k_up, i, 0) - img_get_pixel(img, k_down, i, 0)
        G_y == img_get_pixel(img, k_up, i, 1) - img_get_pixel(img, k_down, i, 1)
        B_y == img_get_pixel(img, k_up, i, 2) - img_get_pixel(img, k_down, i, 2)
        grad_x_2 == R_x * R_x + B_x * B_x + G_x * G_x
        grad_y_2 == R_y * R_y + B_y * B_y + G_y * G_y
        energy == SqrtInt(grad_x_2 + grad_y_2)
    IN  (energy \div 10) % 256

\* seamcarving.c calc_energy: the loops over j and i, from pixel k = j * w + i on.
RECURSIVE calc_energy_loop(_, _, _)
calc_energy_loop(img, g, k) ==
    IF k >= img.height * img.width THEN g
    ELSE LET j == k \div img.width
             i == k % img.width
             e == calc_energy_at(img, j, i)
         IN  calc_energy_loop(img, img_set_pixel(g, j, i, e, e, e), k + 1)

calc_energy(img, garbage) ==
    calc_energy_loop(img, create_img(img.height, img.width, garbage), 0)

\* seamcarving_wasm.c calc_energy, the body of the loops for pixel (j, i).
wasm_calc_energy_at(s, h, w, j, i) ==
    LET k_left == IF i = 0 THEN w - 1 ELSE i - 1
        k_right == IF i = w - 1 THEN 0 ELSE i + 1
        k_up == IF j = 0 THEN h - 1 ELSE j - 1
        k_down == IF j = h - 1 THEN 0 ELSE j + 1
        r_x == get_pixel(s, w, j, k_right, 0) - get_pixel(s, w, j, k_left, 0)
        g_x == get_pixel(s, w, j, k_right, 1) - get_pixel(s, w, j, k_left, 1)
        b_x == get_pixel(s, w, j, k_right, 2) - get_pixel(s, w, j, k_left, 2)
        r_y == get_pixel(s, w, k_up, i, 0) - get_pixel(s, w, k_down, i, 0)
        g_y == get_pixel(s, w, k_up, i, 1) - get_pixel(s, w, k_down, i, 1)
        b_y == get_pixel(s, w, k_up, i, 2) - get_pixel(s, w, k_down, i, 2)
        grad_x_2 == r_x * r_x + g_x * g_x + b_x * b_x
        grad_y_2 == r_y * r_y + g_y * g_y + b_y * b_y
        energy == SqrtInt(grad_x_2 + grad_y_2)
    IN  energy \div 10

\* seamcarving_wasm.c calc_energy: the loops, from pixel k = j * w + i on.
RECURSIVE wasm_calc_energy_loop(_, _, _, _, _)
wasm_calc_energy_loop(s, d, h, w, k) ==
    IF k >= h * w THEN d
    ELSE LET j == k \div w
             i == k % w
             e == wasm_calc_energy_at(s, h, w, j, i)
         IN  wasm_calc_energy_loop(s, set_pixel(d, w, j, i, e, e, e, 255), h, w, k + 1)

wasm_calc_energy(s, d, h, w) == wasm_calc_energy_loop(s, d, h, w, 0)


\* ------------------------------------------------------------------ cost table
\* min_2 (both files)
min_2(e1, e2) == IF e1 > e2 THEN e2 ELSE e1

\* min_3 (both files)
min_3(e1, e2, e3) ==
    LET sub_min == min_2(e1, e2)
    IN  IF sub_min > e3 THEN e3 ELSE sub_min

\* seamcarving.c dynamic_seam, the base-case loop from column i on.
RECURSIVE dynamic_seam_base(_, _, _)
dynamic_seam_base(g, b, i) ==
    IF i >= g.width THEN b
    ELSE dynamic_seam_base(g, Store(b, i, img_get_pixel(g, 0, i, 0)), i + 1)

\* seamcarving.c dynamic_seam, the body of the loops for cell (j, i).
dynamic_seam_at(g, b, j, i) ==
    LET ww == g.width
        cur == img_get_pixel(g, j, i, 0)
        up == (j - 1) * ww
        reads == IF i = 0 THEN {up + (i + 1), up + i}
                 ELSE IF i = ww - 1 THEN {up + i, up + (i - 1)}
                 ELSE {up + (i - 1), up + i, up + (i + 1)}
        min == IF i = 0 THEN min_2(b.cells[up + (i + 1)], b.cells[up + i])
               ELSE IF i = ww - 1 THEN min_2(b.cells[up + i], b.cells[up + (i - 1)])
               ELSE min_3(b.cells[up + (i - 1)], b.cells[up + i], b.cells[up + (i + 1)])
    IN  Store(Loaded(b, reads), j * ww + i, cur + min)

\* seamcarving.c dynamic_seam, the loops over j >= 1 and i, from cell k on.
RECURSIVE dynamic_seam_loop(_, _, _)
dynamic_seam_loop(g, b, k) ==
    IF k >= g.height * g.width THEN b
    ELSE dynamic_seam_loop(g, dynamic_seam_at(g, b, k \div g.width, k % g.width), k + 1)

dynamic_seam(g, garbage) ==
    dynamic_seam_loop(g,
        dynamic_seam_base(g, Malloc(g.height * g.width, garbage), 0),
        g.width)

\* ------------------------------------------------------------------ seam
\* recover_path: the value min starts every row with.  The source writes
\* 10000000000000000, beyond TLC's integers; every cost of the model is below
\* both.
InitialMin == 2147483647

\* recover_path_bottom with >= for >: a later equal cost replaces an earlier.
recover_path_bottom_last(best, ww, j, i, s) ==
    LET b == best[j * ww + i]
    IN  IF s.min >= b
        THEN [s EXCEPT !.path = Store(@, j, i), !.min = b, !.x_cont = i]
        ELSE s

\* seamcarving.c recover_path, row j = height - 1 at column i: the running
\* minimum of the bottom row.  s holds min, the e*_sum and e*_i of this row,
\* and path and x_cont.
recover_path_bottom(best, ww, j, i, s) ==
    LET b == best[j * ww + i]
    IN  IF s.min > b
        THEN [s EXCEPT !.path = Store(@, j, i), !.min = b, !.x_cont = i]
        ELSE s

\* seamcarving.c recover_path, a row above the bottom at column i: the costs
\* of the columns next to x_cont are noted.
recover_path_note(best, ww, j, i, s) ==
    LET b == best[j * ww + i]
    IN  IF s.min > b THEN
            IF s.x_cont = 0 THEN
                IF i = s.x_cont THEN [s EXCEPT !.e1_sum = b, !.e1_i = i]
                ELSE IF i = s.x_cont + 1 THEN [s EXCEPT !.e2_sum = b, !.e2_i = i]
                ELSE s
            ELSE IF s.x_cont = ww - 1 THEN
                IF i = s.x_cont THEN [s EXCEPT !.e1_sum = b, !.e1_i = i]
                ELSE IF i = s.x_cont - 1 THEN [s EXCEPT !.e2_sum = b, !.e2_i = i]
                ELSE s
            ELSE
                IF i = s.x_cont THEN [s EXCEPT !.e1_sum = b, !.e1_i = i]
                ELSE IF i = s.x_cont - 1 THEN [s EXCEPT !.e2_sum = b, !.e2_i = i]
                ELSE IF i = s.x_cont + 1 THEN [s EXCEPT !.e3_sum = b, !.e3_i = i]
                ELSE s
        ELSE s

\* path[j] = e_i; x_cont = e_i, after min = m.
recover_path_pick(s, j, m, e_i) ==
    [s EXCEPT !.min = m, !.path = Store(@, j, e_i), !.x_cont = e_i]

\* recover_path_choose with e3_i for e2_i in the two-candidate branch.
recover_path_choose_e3(j, s) ==
    IF s.e3_sum = 0 THEN
        LET m == min_2(s.e1_sum, s.e2_sum)
        IN  IF m = s.e1_sum THEN recover_path_pick(s, j, m, s.e1_i)
            ELSE recover_path_pick(s, j, m, s.e3_i)
    ELSE
        LET m == min_3(s.e1_sum, s.e2_sum, s.e3_sum)
        IN  IF m = s.e1_sum THEN recover_path_pick(s, j, m, s.e1_i)
            ELSE IF m = s.e2_sum THEN recover_path_pick(s, j, m, s.e2_i)
            ELSE recover_path_pick(s, j, m, s.e3_i)

\* recover_path_choose with the test of e2_sum ahead of the test of e1_sum.
recover_path_choose_left_first(j, s) ==
    IF s.e3_sum = 0 THEN
        LET m == min_2(s.e1_sum, s.e2_sum)
        IN  IF m = s.e2_sum THEN recover_path_pick(s, j, m, s.e2_i)
            ELSE recover_path_pick(s, j, m, s.e1_i)
    ELSE
        LET m == min_3(s.e1_sum, s.e2_sum, s.e3_sum)
        IN  IF m = s.e2_sum THEN recover_path_pick(s, j, m, s.e2_i)
            ELSE IF m = s.e1_sum THEN recover_path_pick(s, j, m, s.e1_i)
            ELSE recover_path_pick(s, j, m, s.e3_i)

\* seamcarving.c recover_path, a row above the bottom at i = width - 1: the
\* column of row j is chosen among the noted ones.
recover_path_choose(j, s) ==
    IF s.e3_sum = 0 THEN
        LET m == min_2(s.e1_sum, s.e2_sum)
        IN  IF m = s.e1_sum THEN recover_path_pick(s, j, m, s.e1_i)
            ELSE recover_path_pick(s, j, m, s.e2_i)
    ELSE
        LET m == min_3(s.e1_sum, s.e2_sum, s.e3_sum)
        IN  IF m = s.e1_sum THEN recover_path_pick(s, j, m, s.e1_i)
            ELSE IF m = s.e2_sum THEN recover_path_pick(s, j, m, s.e2_i)
            ELSE recover_path_pick(s, j, m, s.e3_i)

\* seamcarving.c recover_path, the body of the loop over i for row j.
recover_path_at(best, hh, ww, j, i, s) ==
    IF j = hh - 1 THEN recover_path_bottom(best, ww, j, i, s)
    ELSE LET s1 == recover_path_note(best, ww, j, i, s)
         IN  IF i = ww - 1 THEN recover_path_choose(j, s1) ELSE s1

\* seamcarving.c recover_path, the loop over i for row j, from column i on.
RECURSIVE recover_path_row(_, _, _, _, _, _)
recover_path_row(best, hh, ww, j, i, s) ==
    IF i >= ww THEN s
    ELSE recover_path_row(best, hh, ww, j, i + 1, recover_path_at(best, hh, ww, j, i, s))

\* seamcarving.c recover_path, the loop over j from row j up to row 0.
RECURSIVE recover_path_loop(_, _, _, _, _)
recover_path_loop(best, hh, ww, j, s) ==
    IF j < 0 THEN s
    ELSE LET fresh == [s EXCEPT !.min = InitialMin,
                                !.e1_sum = 0, !.e2_sum = 0, !.e3_sum = 0,
                                !.e1_i = 0, !.e2_i = 0, !.e3_i = 0]
         IN  recover_path_loop(best, hh, ww, j - 1,
                               recover_path_row(best, hh, ww, j, 0, fresh))

\* recover_path(best, height, width, &path): the path buffer it leaves.
\* garbage fills the path buffer, x_garbage is x_cont before its first store.
recover_path(best, hh, ww, garbage, x_garbage) ==
    recover_path_loop(best, hh, ww, hh - 1,
        [min |-> InitialMin, e1_sum |-> 0, e2_sum |-> 0, e3_sum |-> 0,
         e1_i |-> 0, e2_i |-> 0, e3_i |-> 0,
         path |-> Malloc(hh, garbage), x_cont |-> x_garbage]).path

\* ------------------------------------------------------------------ removal
\* remove_seam_at without the shift of the pixels right of the seam.
remove_seam_at_no_shift(s, d, p, j, i) ==
    LET R == img_get_pixel(s, j, i, 0)
        G == img_get_pixel(s, j, i, 1)
        B == img_get_pixel(s, j, i, 2)
    IN  IF i # p[j] THEN img_set_pixel(d, j, i, R, G, B) ELSE d

\* seamcarving.c remove_seam, the body of the loops for pixel (j, i).
remove_seam_at(s, d, p, j, i) ==
    LET R == img_get_pixel(s, j, i, 0)
        G == img_get_pixel(s, j, i, 1)
        B == img_get_pixel(s, j, i, 2)
    IN  IF i # p[j] THEN
            IF i < p[j] THEN img_set_pixel(d, j, i, R, G, B)
                        ELSE img_set_pixel(d, j, i - 1, R, G, B)
        ELSE d

\* seamcarving.c remove_seam, the loops over j and i, from pixel k on.
RECURSIVE remove_seam_loop(_, _, _, _)
remove_seam_loop(s, d, p, k) ==
    IF k >= s.height * s.width THEN d
    ELSE remove_seam_loop(s, remove_seam_at(s, d, p, k \div s.width, k % s.width),
                          p, k + 1)

\* remove_seam(src, &dest, path): the raster it leaves in dest.
remove_seam(s, p, garbage) ==
    remove_seam_loop(s, create_img(s.height, s.width - 1, garbage), p, 0)

\* ------------------------------------------------------------------ seam_carve
\* seam_carve: energy_map = malloc(...); calc_energy(src, energy_map, ...).
seam_carve_energy(s, h, w, garbage) ==
    wasm_calc_energy(s, MallocRGBA(h, w, garbage), h, w)

\* seam_carve: the loop initialising the first row of best_arr, from column i on.
RECURSIVE seam_carve_dp_base(_, _, _, _)
seam_carve_dp_base(e, b, w, i) ==
    IF i >= w THEN b
    ELSE seam_carve_dp_base(e, Store(b, i, get_pixel(e, w, 0, i, 0)), w, i + 1)

\* seam_carve: the body of the loops filling the DP table, for cell (j, i).
seam_carve_dp_at(e, b, w, j, i) ==
    LET cur == get_pixel(e, w, j, i, 0)
        up == (j - 1) * w
        reads == IF i = 0 THEN {up + i + 1, up + i}
                 ELSE IF i = w - 1 THEN {up + i, up + i - 1}
                 ELSE {up + i - 1, up + i, up + i + 1}
        min == IF i = 0 THEN min_2(b.cells[up + i + 1], b.cells[up + i])
               ELSE IF i = w - 1 THEN min_2(b.cells[up + i], b.cells[up + i - 1])
               ELSE min_3(b.cells[up + i - 1], b.cells[up + i], b.cells[up + i + 1])
    IN  Store(Loaded(b, reads), j * w + i, cur + min)

\* seam_carve: the loops filling the DP table, from cell k on.
RECURSIVE seam_carve_dp_loop(_, _, _, _, _)
seam_carve_dp_loop(e, b, h, w, k) ==
    IF k >= h * w THEN b
    ELSE seam_carve_dp_loop(e, seam_carve_dp_at(e, b, w, k \div w, k % w), h, w, k + 1)

seam_carve_dp(e, h, w, garbage) ==
    seam_carve_dp_loop(e, seam_carve_dp_base(e, Malloc(h * w, garbage), w, 0), h, w, w)

\* seam_carve: the scan of the last row, from column i on; m is
\* <<min_energy, min_idx>>.
RECURSIVE seam_carve_last_row(_, _, _, _, _)
seam_carve_last_row(best, h, w, i, m) ==
    IF i >= w THEN m
    ELSE LET b == best[(h - 1) * w + i]
         IN  seam_carve_last_row(best, h, w, i + 1,
                                 IF b < m[1] THEN <<b, i>> ELSE m)

\* seam_carve: the body of the backtracking loop for row j.
seam_carve_back_at(best, w, p, j) ==
    LET prev_idx == p.cells[j + 1]
        m0 == <<best[j * w + prev_idx], prev_idx>>
        m1 == IF prev_idx > 0 /\ best[j * w + prev_idx - 1] < m0[1]
              THEN <<best[j * w + prev_idx - 1], prev_idx - 1>> ELSE m0
        m2 == IF prev_idx < w - 1 /\ best[j * w + prev_idx + 1] < m1[1]
              THEN <<best[j * w + prev_idx + 1], prev_idx + 1>> ELSE m1
    IN  Store(p, j, m2[2])

\* seam_carve: the backtracking loop, from row j up to row 0.
RECURSIVE seam_carve_back_loop(_, _, _, _)
seam_carve_back_loop(best, w, p, j) ==
    IF j < 0 THEN p
    ELSE seam_carve_back_loop(best, w, seam_carve_back_at(best, w, p, j), j - 1)

\* seam_carve: "Find the seam path", the path buffer it leaves.
seam_carve_path(best, h, w, garbage) ==
    LET m == seam_carve_last_row(best, h, w, 1, <<best[(h - 1) * w], 0>>)
    IN  seam_carve_back_loop(best, w, Store(Malloc(h, garbage), h - 1, m[2]), h - 2)

\* seam_carve: the copy loop over i for row j, from column i on.
RECURSIVE seam_carve_copy_row(_, _, _, _, _, _, _)
seam_carve_copy_row(s, o, w, p, j, i, new_col) ==
    IF i >= w THEN o
    ELSE IF i # p[j] THEN
        seam_carve_copy_row(s,
            set_pixel(o, w - 1, j, new_col,
                      get_pixel(s, w, j, i, 0), get_pixel(s, w, j, i, 1),
                      get_pixel(s, w, j, i, 2), get_pixel(s, w, j, i, 3)),
            w, p, j, i + 1, new_col + 1)
    ELSE seam_carve_copy_row(s, o, w, p, j, i + 1, new_col)

\* seam_carve: the copy loop over j, from row j on.
RECURSIVE seam_carve_copy_loop(_, _, _, _, _, _)
seam_carve_copy_loop(s, o, h, w, p, j) ==
    IF j >= h THEN o
    ELSE seam_carve_copy_loop(s, seam_carve_copy_row(s, o, w, p, j, 0, 0), h, w, p, j + 1)

\* seam_carve: "Create the output image with one less column" and the copy.
seam_carve_copy(s, h, w, p, garbage) ==
    seam_carve_copy_loop(s, MallocRGBA(h, w - 1, garbage), h, w, p, 0)

\* ------------------------------------------------------------------ actions
nativeVars == <<grad, best_arr, path, dest, pc>>
wasmVars == <<sc_energy_map, sc_best_arr, sc_path, sc_output, sc_pc>>
inputVars == <<height, width, im, src>>

\* calc_energy(im, &grad)
CalcEnergy ==
    /\ pc = "calc_energy"
    /\ \E g \in Garbage : grad' = calc_energy(im, g)
    /\ pc' = "dynamic_seam"
    /\ UNCHANGED <<inputVars, wasmVars, best_arr, path, dest>>

\* dynamic_seam(grad, &best_arr)
DynamicSeam ==
    /\ pc = "dynamic_seam"
    /\ \E g \in Garbage : best_arr' = dynamic_seam(grad, g)
    /\ pc' = "recover_path"
    /\ UNCHANGED <<inputVars, wasmVars, grad, path, dest>>

\* recover_path(best_arr, height, width, &path)
RecoverPath ==
    /\ pc = "recover_path"
    /\ \E g \in Garbage, xg \in Garbage :
          path' = recover_path(best_arr.cells, height, width, g, xg)
    /\ pc' = "remove_seam"
    /\ UNCHANGED <<inputVars, wasmVars, grad, best_arr, dest>>

\* remove_seam(im, &dest, path)
RemoveSeam ==
    /\ pc = "remove_seam"
    /\ \E g \in Garbage : dest' = remove_seam(im, path.cells, g)
    /\ pc' = "done"
    /\ UNCHANGED <<inputVars, wasmVars, grad, best_arr, path>>

\* seam_carve(src, height, width), "Create an energy map"
SeamCarveEnergy ==
    /\ sc_pc = "energy"
    /\ \E g \in Garbage : sc_energy_map' = seam_carve_energy(src, height, width, g)
    /\ sc_pc' = "dp"
    /\ UNCHANGED <<inputVars, nativeVars, sc_best_arr, sc_path, sc_output>>

\* seam_carve, the cumulative minimum energy table
SeamCarveDP ==
    /\ sc_pc = "dp"
    /\ \E g \in Garbage : sc_best_arr' = seam_carve_dp(sc_energy_map, height, width, g)
    /\ sc_pc' = "path"
    /\ UNCHANGED <<inputVars, nativeVars, sc_energy_map, sc_path, sc_output>>

\* seam_carve, "Find the seam path"
SeamCarvePath ==
    /\ sc_pc = "path"
    /\ \E g \in Garbage : sc_path' = seam_carve_path(sc_best_arr.cells, height, width, g)
    /\ sc_pc' = "copy"
    /\ UNCHANGED <<inputVars, nativeVars, sc_energy_map, sc_best_arr, sc_output>>

\* seam_carve, "Copy pixels, skipping the seam", and the return of output
SeamCarveCopy ==
    /\ sc_pc = "copy"
    /\ \E g \in Garbage : sc_output' = seam_carve_copy(src, height, width, sc_path.cells, g)
    /\ sc_pc' = "done"
    /\ UNCHANGED <<inputVars, nativeVars, sc_energy_map, sc_best_arr, sc_path>>

\* ------------------------------------------------------------------ inputs
Cells(h, w) == 0..(h * w - 1)

\* The struct rgb_img holding the RGB channels of an RGBA buffer.
RgbImg(h, w, rgba) ==
    [height |-> h, width |-> w,
     cells |-> [k \in Cells(h, w) |-> <<rgba[k][1], rgba[k][2], rgba[k][3]>>],
     written |-> Cells(h, w), writes |-> <<>>]

\* The caller's RGBA buffer with the given pixels.
RgbaBuf(h, w, rgba) ==
    [cells |-> rgba, written |-> Cells(h, w), writes |-> <<>>]

\* A fully written buffer of doubles or ints.
Buf(f) == [cells |-> f, written |-> DOMAIN f, stale |-> {}]

NothingComputed ==
    /\ grad = NoImg /\ best_arr = NoBuf /\ path = NoBuf /\ dest = NoImg
    /\ sc_energy_map = NoRGBA /\ sc_best_arr = NoBuf /\ sc_path = NoBuf
    /\ sc_output = NoRGBA

\* An image of at most MaxH x MaxW pixels, handed to both programs.
Init ==
    /\ height \in 1..MaxH
    /\ width \in 1..MaxW
    /\ height * width <= MaxCells
    /\ \E rgba \in [Cells(height, width) -> Palette] :
          /\ im = RgbImg(height, width, rgba)
          /\ src = RgbaBuf(height, width, rgba)
    /\ NothingComputed
    /\ pc = "calc_energy"
    /\ sc_pc = "energy"

Next ==
    \/ CalcEnergy
    \/ DynamicSeam
    \/ RecoverPath
    \/ RemoveSeam
    \/ SeamCarveEnergy
    \/ SeamCarveDP
    \/ SeamCarvePath
    \/ SeamCarveCopy

\* The whole pipeline, native and wasm, on every image.
Spec == Init /\ [][Next]_vars

\* The energy stage alone.
NextEnergy ==
    \/ CalcEnergy
    \/ SeamCarveEnergy

SpecEnergy == Init /\ [][NextEnergy]_vars

\* The backtracking alone, on every cost table of at most MaxH x MaxW.
InitRecover ==
    /\ height \in 1..MaxH
    /\ width \in 1..MaxW
    /\ height * width <= MaxCells
    /\ \E t \in [Cells(height, width) -> CostVals] :
          /\ best_arr = Buf(t)
          /\ sc_best_arr = Buf(t)
    /\ im = NoImg /\ src = NoRGBA
    /\ grad = NoImg /\ path = NoBuf /\ dest = NoImg
    /\ sc_energy_map = NoRGBA /\ sc_path = NoBuf /\ sc_output = NoRGBA
    /\ pc = "recover_path"
    /\ sc_pc = "path"

NextRecover ==
    \/ RecoverPath
    \/ SeamCarvePath

SpecRecover == InitRecover /\ [][NextRecover]_vars

\* The pixel of row j, column i of the raster handed to the removal: no two
\* pixels are alike, so a copied pixel names the place it came from.
TagPixel(j, i) == <<10 * j + i, 100 + i, 200 + j, 250 - (j + i)>>

\* The column of [0, w - 1] nearest to c.
Nearest(c, w) == IF c < 0 THEN 0 ELSE IF c > w - 1 THEN w - 1 ELSE c

\* The removal alone, on every seam of columns in -1 .. width for
\* remove_seam; seam_carve's copy loop gets the seam of in-range columns
\* nearest to it, as seam_carve only ever copies along its own seam.
InitRemove ==
    /\ height \in 1..MaxH
    /\ width \in 1..MaxW
    /\ height * width <= MaxCells
    /\ LET rgba == [k \in Cells(height, width) |-> TagPixel(k \div width, k % width)]
       IN  /\ im = RgbImg(height, width, rgba)
           /\ src = RgbaBuf(height, width, rgba)
    /\ \E p \in [0..(height - 1) -> -1..width] :
          /\ path = Buf(p)
          /\ sc_path = Buf([j \in 0..(height - 1) |-> Nearest(p[j], width)])
    /\ grad = NoImg /\ best_arr = NoBuf /\ dest = NoImg
    /\ sc_energy_map = NoRGBA /\ sc_best_arr = NoBuf /\ sc_output = NoRGBA
    /\ pc = "remove_seam"
    /\ sc_pc = "copy"

NextRemove ==
    \/ RemoveSeam
    \/ SeamCarveCopy

SpecRemove == InitRemove /\ [][NextRemove]_vars

\* ------------------------------------------------------------------ properties
Cols(w) == 0..(w - 1)
Rows(h) == 0..(h - 1)
MinOf(S) == CHOOSE m \in S : \A x \in S : m <= x
Sq(x) == x * x
Abs(x) == IF x < 0 THEN -x ELSE x

\* The columns of [0, w - 1] next to column c.
Near(c, w) == {c - 1, c, c + 1} \cap Cols(w)

\* The RGB channels of an RGBA pixel.
Rgb(px) == <<px[1], px[2], px[3]>>

\* Channel 0 of every pixel of a raster.
Channel0(r) == [k \in DOMAIN r.cells |-> r.cells[k][1]]

EnergyDone == pc # "calc_energy"
ScEnergyDone == sc_pc # "energy"
CostDone == pc \notin {"calc_energy", "dynamic_seam"}
ScCostDone == sc_pc \notin {"energy", "dp"}
RecoverDone == pc \in {"remove_seam", "done"}
ScPathDone == sc_pc \in {"copy", "done"}
RemoveDone == pc = "done"
ScCopyDone == sc_pc = "done"

\* The squared dual gradient of pixel (j, i), neighbours taken modulo the size.
DualGradient2(f, h, w, j, i) ==
    LET left == f[j * w + ((i - 1) % w)]
        right == f[j * w + ((i + 1) % w)]
        up == f[((j - 1) % h) * w + i]
        down == f[((j + 1) % h) * w + i]
    IN  Sq(right[1] - left[1]) + Sq(right[2] - left[2]) + Sq(right[3] - left[3])
      + Sq(up[1] - down[1]) + Sq(up[2] - down[2]) + Sq(up[3] - down[3])

\* v = floor(floor(sqrt(g2)) / 10)
IsNormalisedEnergy(v, g2) == v >= 0 /\ Sq(10 * v) <= g2 /\ g2 < Sq(10 * v + 10)

EnergyMapOf(cells, source, h, w) ==
    \A j \in Rows(h), i \in Cols(w), c \in 1..3 :
        IsNormalisedEnergy(cells[j * w + i][c], DualGradient2(source, h, w, j, i))

\* C7: calc_energy (both files) stores floor(floor(sqrt(gradX2 + gradY2)) / 10)
\* in all three channels of every pixel, the neighbours taken with wrap-around,
\* for every raster with H >= 1 and W >= 1, and writes nothing to the source.
C7_EnergyMap ==
    /\ EnergyDone =>
          /\ grad.height = height /\ grad.width = width
          /\ DOMAIN grad.cells = Cells(height, width)
          /\ EnergyMapOf(grad.cells, im.cells, height, width)
    /\ ScEnergyDone =>
          /\ DOMAIN sc_energy_map.cells = Cells(height, width)
          /\ EnergyMapOf(sc_energy_map.cells, src.cells, height, width)
    /\ im.writes = <<>> /\ src.writes = <<>>
    /\ \A k \in Cells(height, width) : im.cells[k] = Rgb(src.cells[k])

\* Both energy maps are computed for a 3 x 3 image whose top-left pixel has a
\* non-zero horizontal and a non-zero vertical difference across the border.
C7_Witness ==
    /\ EnergyDone /\ ScEnergyDone
    /\ height = 3 /\ width = 3
    /\ im.cells[2] # im.cells[1]
    /\ im.cells[6] # im.cells[3]
    /\ grad.cells[0][1] = 38
    /\ sc_energy_map.cells[0][1] = 38

\* The total energy of seam p.
RECURSIVE SeamSum(_, _, _, _)
SeamSum(E, w, p, j) ==
    IF j < 0 THEN 0 ELSE E[j * w + p[j]] + SeamSum(E, w, p, j - 1)

\* The top-to-bottom paths whose column changes by at most 1 from row to row.
Seams(h, w) ==
    {p \in [Rows(h) -> Cols(w)] : \A j \in 0..(h - 2) : Abs(p[j] - p[j + 1]) <= 1}

IsMinimalSeam(E, h, w, p) ==
    /\ p \in Seams(h, w)
    /\ \A q \in Seams(h, w) : SeamSum(E, w, p, h - 1) <= SeamSum(E, w, q, h - 1)

\* C1: for every image with H >= 1 and W >= 2 the seam of the native pipeline
\* and the seam of seam_carve have the minimum total energy of all seams.
C1_MinimalSeam ==
    /\ (RecoverDone /\ width >= 2) =>
          IsMinimalSeam(Channel0(grad), height, width, path.cells)
    /\ (ScPathDone /\ width >= 2) =>
          IsMinimalSeam(Channel0(sc_energy_map), height, width, sc_path.cells)

\* The cost table b of energy map E: row 0 is E's, every later cell adds the
\* minimum of the cells above it that are next to its column, and no cell was
\* read before it was written.
IsCostTable(b, E, h, w) ==
    /\ b.stale = {}
    /\ \A i \in Cols(w) : b.cells[i] = E[i]
    /\ \A j \in 1..(h - 1), i \in Cols(w) :
          b.cells[j * w + i] =
              E[j * w + i] + MinOf({b.cells[(j - 1) * w + i2] : i2 \in Near(i, w)})

\* C2: for every energy map with H >= 1 and W >= 1 the cost table of
\* dynamic_seam (and of seam_carve) satisfies the recurrence over the
\* predecessors {i-1, i, i+1} within [0, W-1], reading no unwritten cell.
C2_CostRecurrence ==
    /\ CostDone => IsCostTable(best_arr, Channel0(grad), height, width)
    /\ ScCostDone => IsCostTable(sc_best_arr, Channel0(sc_energy_map), height, width)

NonNegative(b) == \A k \in DOMAIN b.cells : b.cells[k] >= 0

\* Row j of seam p has the least cost of the columns next to p[j + 1].
IsLocalMin(best, w, p, j) ==
    /\ p[j] \in Near(p[j + 1], w)
    /\ best[j * w + p[j]] = MinOf({best[j * w + c] : c \in Near(p[j + 1], w)})

\* C3: for every non-negative cost table with H >= 2, every row j < H - 1 of
\* the seam has the minimum cost among the columns next to path[j + 1].
C3_LocalMin ==
    /\ (RecoverDone /\ NonNegative(best_arr)) =>
          \A j \in 0..(height - 2) : IsLocalMin(best_arr.cells, width, path.cells, j)
    /\ (ScPathDone /\ NonNegative(sc_best_arr)) =>
          \A j \in 0..(height - 2) : IsLocalMin(sc_best_arr.cells, width, sc_path.cells, j)

IsWellFormedSeam(p, h, w) ==
    /\ p.written = Rows(h)
    /\ DOMAIN p.cells = Rows(h)
    /\ \A j \in Rows(h) : 0 <= p.cells[j] /\ p.cells[j] < w
    /\ \A j \in 0..(h - 2) : Abs(p.cells[j] - p.cells[j + 1]) <= 1

\* C4: for every cost table with H >= 1 and W >= 1 the path written by
\* recover_path (and by seam_carve) has all H entries assigned, every entry
\* in [0, W-1], and adjacent entries at most 1 apart.
C4_WellFormedSeam ==
    /\ RecoverDone => IsWellFormedSeam(path, height, width)
    /\ ScPathDone => IsWellFormedSeam(sc_path, height, width)

\* Both seams are found on a 3-column table and end in the right-hand column,
\* one step away from the column of the bottom row.
C4_Witness ==
    /\ RecoverDone /\ ScPathDone
    /\ height = 2 /\ width = 3
    /\ path.cells[1] = 1 /\ path.cells[0] = 2
    /\ sc_path.cells[1] = 1 /\ sc_path.cells[0] = 2

\* Every position of an h x w raster was handed to set_pixel exactly once and
\* no other position was.
WrittenOnce(writes, h, w) ==
    /\ Len(writes) = h * w
    /\ \A n \in 1..Len(writes) : writes[n][1] \in Rows(h) /\ writes[n][2] \in Cols(w)
    /\ \A n, m \in 1..Len(writes) : writes[n] = writes[m] => n = m

\* cells is source (of width w) without column p[j] of every row j.
IsCarved(cells, source, h, w, p) ==
    /\ DOMAIN cells = Cells(h, w - 1)
    /\ \A j \in Rows(h), i \in Cols(w - 1) :
          cells[j * (w - 1) + i] =
              IF i < p[j] THEN source[j * w + i] ELSE source[j * w + i + 1]

ValidSeam(p, h, w) == \A j \in Rows(h) : p[j] \in Cols(w)

\* C5: for every raster with W >= 2 and every seam of in-range columns,
\* remove_seam (and seam_carve's copy loop) leaves an H x (W-1) raster whose
\* row j is the source row without column path[j], every output cell written
\* exactly once and nothing written outside the output.
C5_SeamRemoved ==
    /\ (RemoveDone /\ width >= 2 /\ ValidSeam(path.cells, height, width)) =>
          /\ dest.height = height /\ dest.width = width - 1
          /\ IsCarved(dest.cells, im.cells, height, width, path.cells)
          /\ WrittenOnce(dest.writes, height, width - 1)
    /\ (ScCopyDone /\ width >= 2) =>
          /\ IsCarved(sc_output.cells, src.cells, height, width, sc_path.cells)
          /\ WrittenOnce(sc_output.writes, height, width - 1)

\* Both removals are done on a 3 x 3 raster along a seam through the left,
\* the middle and the right column.
C5_Witness ==
    /\ RemoveDone /\ ScCopyDone
    /\ height = 3 /\ width = 3
    /\ path.cells = [j \in Rows(3) |-> j]
    /\ sc_path.cells = path.cells
    /\ Len(dest.writes) = 6 /\ Len(sc_output.writes) = 6

\* C6: given a seam with a column outside [0, W-1], remove_seam fails with
\* InvalidSeam and has written nothing to the output raster.
C6_InvalidSeamRejected ==
    (pc # "remove_seam" /\ ~ValidSeam(path.cells, height, width)) =>
        /\ pc = "InvalidSeam"
        /\ dest.writes = <<>>
        /\ dest.written = {}

\* The minimisers of row j among the columns next to c.
Minimisers(best, w, j, c) ==
    {x \in Near(c, w) : \A y \in Near(c, w) : best[j * w + x] <= best[j * w + y]}

\* The documented tie-break: c, then c - 1, then c + 1.
TieBreak(M, c) == IF c \in M THEN c ELSE IF c - 1 \in M THEN c - 1 ELSE c + 1

FollowsTieBreak(best, h, w, p) ==
    \A j \in 0..(h - 2) :
        LET c == p[j + 1]
            M == Minimisers(best, w, j, c)
        IN  Cardinality(M) >= 2 => p[j] = TieBreak(M, c)

\* C8: in every row j < H - 1 where two or more of the columns next to
\* c = path[j + 1] share the minimum cost, path[j] is c if c is a minimiser,
\* otherwise c - 1 if it is, otherwise c + 1; and the path is the same whatever
\* the path buffer and x_cont held before the call.
C8_TieBreak ==
    /\ RecoverDone =>
          /\ FollowsTieBreak(best_arr.cells, height, width, path.cells)
          /\ path.cells = recover_path(best_arr.cells, height, width, 0, 0).cells
    /\ ScPathDone =>
          /\ FollowsTieBreak(sc_best_arr.cells, height, width, sc_path.cells)
          /\ sc_path.cells = seam_carve_path(sc_best_arr.cells, height, width, 0).cells

\* Both seams are found on a table whose top row ties at columns 0 and 2 below
\* the cost of column 1, the column of the bottom row: c - 1 is chosen.
C8_Witness ==
    /\ RecoverDone /\ ScPathDone
    /\ height = 2 /\ width = 3
    /\ best_arr.cells[0] = 1 /\ best_arr.cells[1] = 2 /\ best_arr.cells[2] = 1
    /\ path.cells[1] = 1 /\ path.cells[0] = 0
    /\ sc_path.cells[1] = 1 /\ sc_path.cells[0] = 0

IsFirstMinimum(best, h, w, c) ==
    /\ c \in Cols(w)
    /\ \A i \in Cols(w) : best[(h - 1) * w + c] <= best[(h - 1) * w + i]
    /\ \A i \in 0..(c - 1) : best[(h - 1) * w + c] < best[(h - 1) * w + i]

\* C9: path[H - 1] is the lowest column whose bottom-row cost is the minimum
\* of the bottom row.
C9_FirstMinimum ==
    /\ RecoverDone => IsFirstMinimum(best_arr.cells, height, width, path.cells[height - 1])
    /\ ScPathDone =>
          IsFirstMinimum(sc_best_arr.cells, height, width, sc_path.cells[height - 1])

\* Both seams are found on a table whose bottom row has its minimum twice, at
\* columns 1 and 2: column 1 is chosen.
C9_Witness ==
    /\ RecoverDone /\ ScPathDone
    /\ height = 2 /\ width = 3
    /\ best_arr.cells[3] = 2 /\ best_arr.cells[4] = 1 /\ best_arr.cells[5] = 1
    /\ path.cells[1] = 1 /\ sc_path.cells[1] = 1

\* C10: for every image with H >= 1 and W >= 2 seam_carve's seam is the seam
\* of the native pipeline, and the RGB content of its output is remove_seam's.
C10_SameResult ==
    (RemoveDone /\ ScCopyDone /\ width >= 2) =>
        /\ sc_path.cells = path.cells
        /\ DOMAIN sc_output.cells = DOMAIN dest.cells
        /\ \A k \in DOMAIN dest.cells : Rgb(sc_output.cells[k]) = dest.cells[k]

====
